---------------------------- MODULE Spec2Model ----------------------------
(***************************************************************************)
(* Model of notebooks/src/auxiliares.py: the frequency-table builder       *)
(* tabela_distribuicao_frequencias and the hypothesis-test reporters       *)
(* analise_* / analises_shapiro_levene.                                    *)
(*                                                                         *)
(* Numbers.  A float is modelled exactly as an extended rational <<n, d>>  *)
(* in lowest terms with d >= 0:  d > 0 is the finite value n/d, <<1,0>>    *)
(* is +inf, <<-1,0>> is -inf and <<0,0>> is NaN (a missing value).         *)
(* Arithmetic is exact: binary rounding of sums and quotients and the sign  *)
(* of zero are not modelled; the text printed for a number (Fmt3) is that   *)
(* of the double nearest to the rational.                                  *)
(***************************************************************************)
EXTENDS Integers, Sequences, FiniteSets, TLC

VARIABLES
    \* ---- tabela_distribuicao_frequencias ----
    dataframe,          \* dataframe[coluna]: the caller's column, a sequence of cells
    coluna_frequencia,  \* the flag argument
    df_estatistica,     \* the table returned by the latest call
    chamadas,           \* number of calls made on this input
    \* ---- reporters ----
    funcao,             \* the reporter the caller invoked
    colunas,            \* dataframe.columns of the reporter's table
    alfa,               \* alfa argument of the call
    centro,             \* centro argument (Levene and the composite)
    variancias_iguais,  \* variancias_iguais argument (analise_ttest_ind)
    alternativa,        \* alternativa argument
    passo,              \* which reporter of the call is running (the composite runs two)
    pc,                 \* position inside the running reporter
    col,                \* loop index of analise_shapiro
    resultado,          \* (statistic, p-value) returned by the latest routine call
    saida               \* what happened so far, in order: printed lines and routine calls

varsTabela == <<dataframe, coluna_frequencia, df_estatistica, chamadas>>
varsRelatorio ==
    <<funcao, colunas, alfa, centro, variancias_iguais, alternativa, passo, pc, col,
      resultado, saida>>
vars == <<varsTabela, varsRelatorio>>

(***************************************************************************)
(* Bounds                                                                  *)
(***************************************************************************)
MaxLen == 3        \* longest enumerated column
MaxVal == 3        \* cells are the integers -1..MaxVal or missing
MaxChamadas == 2   \* calls made on one input
MaxCols == 2       \* columns of a reporter's table

(***************************************************************************)
(* Extended rationals                                                      *)
(***************************************************************************)
Abs(x) == IF x < 0 THEN -x ELSE x
Sgn(x) == IF x < 0 THEN -1 ELSE IF x > 0 THEN 1 ELSE 0

RECURSIVE Gcd(_, _)
Gcd(a, b) == IF b = 0 THEN a ELSE Gcd(b, a % b)

NaN == <<0, 0>>
Num(n) == <<n, 1>>
IsNaN(x) == x[1] = 0 /\ x[2] = 0
IsInf(x) == x[1] # 0 /\ x[2] = 0
IsFinite(x) == x[2] > 0

Norm(n, d) ==
    IF d = 0 THEN <<Sgn(n), 0>>
    ELSE LET g == Gcd(Abs(n), Abs(d))
         IN  <<(Sgn(d) * n) \div g, Abs(d) \div g>>

\* float addition
Add(a, b) ==
    IF IsNaN(a) \/ IsNaN(b) THEN NaN
    ELSE IF IsInf(a) THEN (IF IsInf(b) /\ b[1] # a[1] THEN NaN ELSE a)
    ELSE IF IsInf(b) THEN b
    ELSE Norm(a[1] * b[2] + b[1] * a[2], a[2] * b[2])

\* float true division; x/0 is +-inf, 0/0 is NaN
Div(a, b) ==
    IF IsNaN(a) \/ IsNaN(b) THEN NaN
    ELSE IF IsInf(a) THEN (IF IsInf(b) THEN NaN
                           ELSE <<a[1] * (IF b[1] < 0 THEN -1 ELSE 1), 0>>)
    ELSE IF IsInf(b) THEN Num(0)
    ELSE Norm(a[1] * b[2], a[2] * b[1])

\* a > b on floats: false whenever either side is NaN
Gt(a, b) ==
    /\ ~IsNaN(a)
    /\ ~IsNaN(b)
    /\ IF IsInf(a) THEN a[1] = 1 /\ b # a
       ELSE IF IsInf(b) THEN b[1] = -1
       ELSE a[1] * b[2] > b[1] * a[2]

(***************************************************************************)
(* pandas primitives used by tabela_distribuicao_frequencias.  A Series is *)
(* a record [index, values] of two sequences of equal length.              *)
(***************************************************************************)
Celulas == {Num(v) : v \in -1..MaxVal} \cup {NaN}
Colunas == UNION {[1..n -> Celulas] : n \in 0..MaxLen}

\* the end-to-end example column of the specification
Exemplo == <<Num(1), Num(1), Num(2), Num(2), Num(3)>>

Series(idx, vals) == [index |-> idx, values |-> vals]

\* dataframe[coluna]: the column under the dataframe's default RangeIndex
Coluna(df) == Series([i \in 1..Len(df) |-> Num(i - 1)], df)

RECURSIVE SumSeq(_)
SumSeq(s) ==
    IF s = <<>> THEN Num(0)
    ELSE IF IsNaN(Head(s)) THEN SumSeq(Tail(s))
    ELSE Add(Head(s), SumSeq(Tail(s)))

\* Series.sum(): missing values are skipped, the empty sum is 0
sum(ser) == SumSeq(ser.values)

RECURSIVE CumSeq(_, _)
CumSeq(s, acc) ==
    IF s = <<>> THEN <<>>
    ELSE IF IsNaN(Head(s)) THEN <<NaN>> \o CumSeq(Tail(s), acc)
    ELSE <<Add(acc, Head(s))>> \o CumSeq(Tail(s), Add(acc, Head(s)))

\* cumsum() left out: the column itself
cumsum_sem_acumular(ser) == ser

\* Series.cumsum(): running sum; a missing row stays missing and is skipped
cumsum(ser) == Series(ser.index, CumSeq(ser.values, Num(0)))

\* Series / scalar
DivSeries(ser, x) ==
    Series(ser.index, [i \in 1..Len(ser.values) |-> Div(ser.values[i], x)])

Ocorrencias(s, k) == Cardinality({i \in 1..Len(s) : s[i] = k})

RECURSIVE Distintos(_, _)
\* the non-missing values of s in order of first appearance
Distintos(s, vistos) ==
    IF s = <<>> THEN <<>>
    ELSE IF IsNaN(Head(s)) \/ Head(s) \in vistos THEN Distintos(Tail(s), vistos)
    ELSE <<Head(s)>> \o Distintos(Tail(s), vistos \cup {Head(s)})

Remover(s, i) == [j \in 1..(Len(s) - 1) |-> IF j < i THEN s[j] ELSE s[j + 1]]

RECURSIVE OrdenarPorContagem(_, _)
\* rows by value, descending; the first of equal values stays first
OrdenarPorContagem(idx, vals) ==
    IF idx = <<>> THEN Series(<<>>, <<>>)
    ELSE LET i == CHOOSE i \in 1..Len(idx) :
                    /\ \A j \in 1..Len(idx) : ~Gt(vals[j], vals[i])
                    /\ \A j \in 1..(i - 1) : Gt(vals[i], vals[j])
             r == OrdenarPorContagem(Remover(idx, i), Remover(vals, i))
         IN  Series(<<idx[i]>> \o r.index, <<vals[i]>> \o r.values)

RECURSIVE OrdenarPorChave(_, _)
\* rows by key, ascending; the first of equal keys stays first
OrdenarPorChave(idx, vals) ==
    IF idx = <<>> THEN Series(<<>>, <<>>)
    ELSE LET i == CHOOSE i \in 1..Len(idx) :
                    /\ \A j \in 1..Len(idx) : ~Gt(idx[i], idx[j])
                    /\ \A j \in 1..(i - 1) : Gt(idx[j], idx[i])
             r == OrdenarPorChave(Remover(idx, i), Remover(vals, i))
         IN  Series(<<idx[i]>> \o r.index, <<vals[i]>> \o r.values)

\* value_counts() whose normalisation divides by the number of cells, missing included
value_counts_todas(ser, normalize) ==
    LET chaves == Distintos(ser.values, {})
        cont == [i \in 1..Len(chaves) |-> Num(Ocorrencias(ser.values, chaves[i]))]
        ord == OrdenarPorContagem(chaves, cont)
    IN  IF normalize THEN DivSeries(ord, Num(Len(ser.values))) ELSE ord

\* Series.value_counts(): missing values dropped, one row per distinct value,
\* most frequent first (the order among equal counts is immaterial here: every
\* use is followed by sort_index() and the keys are distinct)
value_counts(ser, normalize) ==
    LET chaves == Distintos(ser.values, {})
        cont == [i \in 1..Len(chaves) |-> Num(Ocorrencias(ser.values, chaves[i]))]
        ord == OrdenarPorContagem(chaves, cont)
    IN  IF normalize THEN DivSeries(ord, sum(ord)) ELSE ord

\* sort_index() left out: rows stay in value_counts() order
sort_index_omitido(ser) == ser

\* Series.sort_index(): rows by key, ascending
sort_index(ser) == OrdenarPorChave(ser.index, ser.values)

Posicao(idx, k) == CHOOSE i \in 1..Len(idx) : idx[i] = k

\* df[nome] = ser on a frame that already has an index: ser is aligned to it
Alinhar(ser, idx) ==
    [i \in 1..Len(idx) |->
        IF \E j \in 1..Len(ser.index) : ser.index[j] = idx[i]
        THEN ser.values[Posicao(ser.index, idx[i])]
        ELSE NaN]

(***************************************************************************)
(* tabela_distribuicao_frequencias                                         *)
(***************************************************************************)
\* pd.DataFrame(): no rows, no columns
SemTabela ==
    [index |-> <<>>, frequencia |-> <<>>, frequencia_relativa |-> <<>>,
     frequencia_acumulada |-> <<>>, frequencia_relativa_acumulada |-> <<>>]

\* raw-count branch dividing by the number of rows instead of the sum
Frequencias_por_linhas(df, flag) ==
    IF flag
    THEN LET frequencia == Coluna(df)
         IN  [index |-> frequencia.index,
              frequencia |-> frequencia.values,
              frequencia_relativa |-> DivSeries(frequencia, Num(Len(df))).values]
    ELSE LET frequencia == sort_index(value_counts(Coluna(df), FALSE))
             relativa == sort_index(value_counts(Coluna(df), TRUE))
         IN  [index |-> frequencia.index,
              frequencia |-> frequencia.values,
              frequencia_relativa |-> Alinhar(relativa, frequencia.index)]

\* lines 38-47: the two columns "frequencia" and "frequencia_relativa"
Frequencias(df, flag) ==
    IF flag
    THEN LET frequencia == Coluna(df)
         IN  [index |-> frequencia.index,
              frequencia |-> frequencia.values,
              frequencia_relativa |-> DivSeries(frequencia, sum(frequencia)).values]
    ELSE LET frequencia == sort_index(value_counts(Coluna(df), FALSE))
             relativa == sort_index(value_counts(Coluna(df), TRUE))
         IN  [index |-> frequencia.index,
              frequencia |-> frequencia.values,
              frequencia_relativa |-> Alinhar(relativa, frequencia.index)]

\* lines 36-54: the returned table
Tabela(df, flag) ==
    LET f == Frequencias(df, flag)
    IN  [index |-> f.index,
         frequencia |-> f.frequencia,
         frequencia_relativa |-> f.frequencia_relativa,
         frequencia_acumulada |-> cumsum(Series(f.index, f.frequencia)).values,
         frequencia_relativa_acumulada |->
             cumsum(Series(f.index, f.frequencia_relativa)).values]

\* one call: the input column is only read, the result is a fresh table
tabela_distribuicao_frequencias ==
    /\ chamadas < MaxChamadas
    /\ df_estatistica' = Tabela(dataframe, coluna_frequencia)
    /\ chamadas' = chamadas + 1
    /\ UNCHANGED <<dataframe, coluna_frequencia>>
    /\ UNCHANGED varsRelatorio

RelatorioParado ==
    /\ funcao = "nenhuma"
    /\ colunas = <<>>
    /\ alfa = NaN
    /\ centro = "mean"
    /\ variancias_iguais = "True"
    /\ alternativa = "two-sided"
    /\ passo = 1
    /\ pc = "fim"
    /\ col = 0
    /\ resultado = <<NaN, NaN>>
    /\ saida = <<>>

\* the caller has built a column and chosen the flag; no reporter is running
InitTabela ==
    /\ dataframe \in Colunas \cup {Exemplo}
    /\ coluna_frequencia \in BOOLEAN
    /\ df_estatistica = SemTabela
    /\ chamadas = 0
    /\ RelatorioParado

NextTabela == tabela_distribuicao_frequencias

SpecTabela == InitTabela /\ [][NextTabela]_vars

(***************************************************************************)
(* Properties of tabela_distribuicao_frequencias                           *)
(***************************************************************************)
RECURSIVE Soma(_)
\* plain float sum of a sequence, left to right, the empty sum being 0
Soma(s) == IF s = <<>> THEN Num(0) ELSE Add(Soma(SubSeq(s, 1, Len(s) - 1)), s[Len(s)])

Presentes(df) == {i \in 1..Len(df) : ~IsNaN(df[i])}
Contagens(df) == \A i \in 1..Len(df) : IsFinite(df[i]) /\ df[i][1] >= 0
NaoDecrescente(s) == \A i \in 1..(Len(s) - 1) : ~Gt(s[i], s[i + 1]) /\ ~IsNaN(s[i]) /\ ~IsNaN(s[i + 1])
Retornou == chamadas >= 1

\* C3 as stated: for every non-empty column in raw-observation mode, missing
\* values included, the relative frequencies of the table sum to 1.
C3_SomaUm_Original ==
    (Retornou /\ ~coluna_frequencia /\ dataframe # <<>>)
        => Soma(df_estatistica.frequencia_relativa) = Num(1)

\* C3 amended: for every column with at least one non-missing value, in
\* raw-observation mode, the relative frequencies sum to 1 and the counts sum
\* to the number of non-missing cells (the denominator of the normalisation).
C3_SomaUm ==
    (Retornou /\ ~coluna_frequencia /\ Presentes(dataframe) # {})
        => /\ Soma(df_estatistica.frequencia_relativa) = Num(1)
           /\ Soma(df_estatistica.frequencia) = Num(Cardinality(Presentes(dataframe)))

C3_Witness ==
    /\ Retornou
    /\ ~coluna_frequencia
    /\ Presentes(dataframe) # {}
    /\ \E i \in 1..Len(dataframe) : IsNaN(dataframe[i])
    /\ Len(df_estatistica.index) >= 2

\* C4: in both modes (raw-count mode with count values, i.e. present and
\* non-negative; raw-observation mode with any column) the cumulative
\* frequency never decreases from row to row and its last value is the sum of
\* the frequencia column.
C4_Acumulada ==
    (Retornou /\ (coluna_frequencia => Contagens(dataframe)))
        => LET t == df_estatistica
               n == Len(t.frequencia_acumulada)
           IN  /\ n = Len(t.frequencia)
               /\ NaoDecrescente(t.frequencia_acumulada)
               /\ n > 0 => t.frequencia_acumulada[n] = Soma(t.frequencia)

C4_Witness ==
    /\ Retornou
    /\ coluna_frequencia
    /\ Contagens(dataframe)
    /\ Len(dataframe) >= 3
    /\ dataframe[1][1] > dataframe[2][1]
    /\ dataframe[2][1] > 0
    /\ df_estatistica.frequencia_acumulada[3] = Soma(dataframe)

\* C5: in raw-count mode with count values supplied (present and
\* non-negative), the rows keep the caller's order, frequencia is the supplied value, frequencia_relativa is the
\* value divided by the sum of all supplied values and
\* frequencia_relativa_acumulada of row i is the sum of frequencia_relativa
\* over rows 0..i.
C5_ModoContagem ==
    (Retornou /\ coluna_frequencia /\ Contagens(dataframe))
        => LET t == df_estatistica
           IN  /\ Len(t.index) = Len(dataframe)
               /\ Len(t.frequencia) = Len(dataframe)
               /\ Len(t.frequencia_relativa) = Len(dataframe)
               /\ Len(t.frequencia_relativa_acumulada) = Len(dataframe)
               /\ \A i \in 1..Len(dataframe) :
                    /\ t.index[i] = Num(i - 1)
                    /\ t.frequencia[i] = dataframe[i]
                    /\ t.frequencia_relativa[i] = Div(dataframe[i], Soma(dataframe))
                    /\ t.frequencia_relativa_acumulada[i]
                         = Soma(SubSeq(t.frequencia_relativa, 1, i))

C5_Witness ==
    /\ Retornou
    /\ coluna_frequencia
    /\ dataframe = <<Num(3), Num(0), Num(1)>>
    /\ df_estatistica.frequencia_relativa = <<<<3, 4>>, Num(0), <<1, 4>>>>
    /\ df_estatistica.frequencia_relativa_acumulada = <<<<3, 4>>, <<3, 4>>, Num(1)>>

\* C6: in raw-observation mode the table has exactly one row per distinct
\* (non-missing) value, keys strictly ascending, frequencia the number of
\* occurrences of the key and frequencia_relativa that count divided by the
\* number of counted observations; the column [1,1,2,2,3] yields the table of
\* the end-to-end example.
C6_ModoObservacoes ==
    (Retornou /\ ~coluna_frequencia)
        => LET t == df_estatistica
               n == Len(t.index)
               chaves == {dataframe[i] : i \in Presentes(dataframe)}
           IN  /\ n = Cardinality(chaves)
               /\ {t.index[i] : i \in 1..n} = chaves
               /\ Len(t.frequencia) = n
               /\ Len(t.frequencia_relativa) = n
               /\ \A i \in 1..(n - 1) : Gt(t.index[i + 1], t.index[i])
               /\ \A i \in 1..n :
                    /\ t.frequencia[i] = Num(Ocorrencias(dataframe, t.index[i]))
                    /\ t.frequencia_relativa[i]
                         = Div(Num(Ocorrencias(dataframe, t.index[i])),
                               Num(Cardinality(Presentes(dataframe))))
               /\ dataframe = Exemplo =>
                    t = [index |-> <<Num(1), Num(2), Num(3)>>,
                         frequencia |-> <<Num(2), Num(2), Num(1)>>,
                         frequencia_relativa |-> <<<<2, 5>>, <<2, 5>>, <<1, 5>>>>,
                         frequencia_acumulada |-> <<Num(2), Num(4), Num(5)>>,
                         frequencia_relativa_acumulada |-> <<<<2, 5>>, <<4, 5>>, Num(1)>>]

C6_Witness ==
    /\ Retornou
    /\ ~coluna_frequencia
    /\ dataframe = <<Num(3), NaN, Num(0)>>
    /\ df_estatistica.index = <<Num(0), Num(3)>>
    /\ df_estatistica.frequencia_relativa = <<<<1, 2>>, <<1, 2>>>>

(***************************************************************************)
(* Hypothesis-test reporters.                                              *)
(*                                                                         *)
(* saida is the ordered record of what a call did: the lines it printed    *)
(* and the calls it made to the scipy routine.  Every entry has the same   *)
(* fields; the ones an entry does not use hold "-", <<>> or NaN.           *)
(* Printed texts are kept as ASCII templates of the source's f-strings.    *)
(***************************************************************************)
Reporters ==
    {"analise_shapiro", "analise_levene", "analise_ttest_ind", "analise_ttest_rel",
     "analise_anova_one_way", "analise_wilcoxon", "analise_mannwhitneyu",
     "analise_friedman", "analise_kruskal"}
Funcoes == Reporters \cup {"analises_shapiro_levene"}

NomesColunas == {"a", "b", "c"}
\* dataframe.columns: distinct names in the table's column order
Tabelas ==
    UNION {{c \in [1..n -> NomesColunas] : \A i, j \in 1..n : c[i] = c[j] => i = j}
            : n \in 0..MaxCols}

AlfaPadrao == <<1, 20>>
Alfas == {AlfaPadrao, <<1, 10>>, NaN}
\* (statistic, p-value) pairs the scipy routine may return
Resultados ==
    {<<<<2, 3>>, <<1, 20>>>>, <<<<9, 2000>>, <<1, 10>>>>, <<<<-1, 10000>>, <<1, 16>>>>,
     <<NaN, NaN>>}

Titulo(nome) ==
    CASE nome = "analise_shapiro" -> "Teste de Shapiro-Wilk"
      [] nome = "analise_levene" -> "Teste de Levene"
      [] nome = "analise_ttest_ind" -> "Teste t de Student"
      [] nome = "analise_ttest_rel" -> "Teste t de Student"
      [] nome = "analise_anova_one_way" -> "Teste ANOVA one way"
      [] nome = "analise_wilcoxon" -> "Teste de Wilcoxon"
      [] nome = "analise_mannwhitneyu" -> "Teste de Mann-Whitney"
      [] nome = "analise_friedman" -> "Teste de Friedman"
      [] nome = "analise_kruskal" -> "Teste de Kruskal"

Rotina(nome) ==
    CASE nome = "analise_shapiro" -> "shapiro"
      [] nome = "analise_levene" -> "levene"
      [] nome = "analise_ttest_ind" -> "ttest_ind"
      [] nome = "analise_ttest_rel" -> "ttest_rel"
      [] nome = "analise_anova_one_way" -> "f_oneway"
      [] nome = "analise_wilcoxon" -> "wilcoxon"
      [] nome = "analise_mannwhitneyu" -> "mannwhitneyu"
      [] nome = "analise_friedman" -> "friedmanchisquare"
      [] nome = "analise_kruskal" -> "kruskal"

\* the name the f-string "{name=:.3f}" prints before the statistic
NomeEstatistica(nome) ==
    CASE nome = "analise_shapiro" -> "estatistica_sw"
      [] nome = "analise_levene" -> "estatistica_levene"
      [] nome = "analise_ttest_ind" -> "estatistica_ttest"
      [] nome = "analise_ttest_rel" -> "estatistica_ttest"
      [] nome = "analise_anova_one_way" -> "estatistica_f"
      [] nome = "analise_wilcoxon" -> "estatistica_wilcoxon"
      [] nome = "analise_mannwhitneyu" -> "estatistica_mw"
      [] nome = "analise_friedman" -> "estatistica_friedman"
      [] nome = "analise_kruskal" -> "estatistica_kruskal"

\* the sentence of the "if valor_p > alfa" branch (null hypothesis kept)
TextoMantem(nome) ==
    CASE nome = "analise_shapiro" -> "{coluna} segue uma distribuicao normal (valor p: {p:.3f})"
      [] nome = "analise_levene" -> "Variancias iguais (valor p: {p:.3f})"
      [] OTHER -> "Nao rejeita a hipotese nula (valor p: {p:.3f})"

\* the sentence of the "else" branch (null hypothesis rejected)
TextoRejeita(nome) ==
    CASE nome = "analise_shapiro" -> "{coluna} nao segue uma distribuicao normal (valor p: {p:.3f})"
      [] nome = "analise_levene" -> "Ao menos uma variancia e diferente (valor p: {p:.3f})"
      [] OTHER -> "Rejeita a hipotese nula (valor p: {p:.3f})"

RECURSIVE Bits(_, _, _, _)
\* the bits of the significand after the leading one: r/d is what is left of the
\* value, k bits are still to be produced, b is the bit produced last.  The result
\* is the sign of (nearest double - value): round to nearest, ties to even.
Bits(r, d, k, b) ==
    IF k = 0
    THEN IF r = 0 THEN 0
         ELSE IF 2 * r > d \/ (2 * r = d /\ b = 1) THEN 1
         ELSE -1
    ELSE IF 2 * r >= d THEN Bits(2 * r - d, d, k - 1, 1)
    ELSE Bits(2 * r, d, k - 1, 0)

RECURSIVE ErroBinario(_, _)
\* for n, d > 0: is the double that holds n/d above (1), below (-1) or exactly at
\* (0) n/d.  A double has a 53-bit significand: the leading one and 52 more bits.
ErroBinario(n, d) ==
    IF n >= 2 * d THEN ErroBinario(n, 2 * d)
    ELSE IF n < d THEN ErroBinario(2 * n, d)
    ELSE Bits(n - d, d, 52, 1)

\* a number as print shows it: sign, digits (the value in thousandths) and, for
\* nan and inf, the word printed instead of digits
Impresso(sinal, digitos, especial) ==
    [sinal |-> sinal, digitos |-> digitos, especial |-> especial]

\* the value field of a line that prints no number
SemValor == Impresso("", 0, "-")

\* format spec ".3f": the decimal expansion of the double, correctly rounded to 3
\* places.  A rational that lies exactly half-way between two thousandths goes
\* the way its double lies; if the double is exact, to the even neighbour.  The
\* sign is printed even when the digits round to zero ("-0.000").
Fmt3(x) ==
    IF IsNaN(x) THEN Impresso("", 0, "nan")
    ELSE IF IsInf(x) THEN Impresso(IF x[1] < 0 THEN "-" ELSE "", 0, "inf")
    ELSE LET n == Abs(x[1])
             d == x[2]
             q == (1000 * n) \div d
             resto == 1000 * n - q * d
             acima ==
                IF 2 * resto # d THEN 2 * resto > d
                ELSE LET e == ErroBinario(n, d)
                     IN  IF e # 0 THEN e > 0 ELSE q % 2 = 1
         IN  Impresso(IF x[1] < 0 THEN "-" ELSE "", IF acima THEN q + 1 ELSE q, "")

SemOpcoes == [center |-> "-", equal_var |-> "-", alternative |-> "-", nan_policy |-> "-"]
Evento(tipo, texto, valor, coluna, amostras, opcoes) ==
    [tipo |-> tipo, texto |-> texto, valor |-> valor, coluna |-> coluna,
     amostras |-> amostras, opcoes |-> opcoes]

\* the frame of one running reporter: its name and the arguments it received
Quadro(nome, a, c) == [nome |-> nome, alfa |-> a, centro |-> c]

\* the composite calling Levene before Shapiro
analises_shapiro_levene_invertida(a, c) ==
    <<Quadro("analise_levene", a, c), Quadro("analise_shapiro", a, "-")>>

\* lines 119-124: analise_shapiro(dataframe, alfa), print(),
\* analise_levene(dataframe, alfa, centro)
analises_shapiro_levene(a, c) ==
    <<Quadro("analise_shapiro", a, "-"), Quadro("analise_levene", a, c)>>

\* the reporters a call runs, in order
Plano ==
    IF funcao = "analises_shapiro_levene" THEN analises_shapiro_levene(alfa, centro)
    ELSE <<Quadro(funcao, alfa, centro)>>

ativa == Plano[passo]

\* every reporter handing the routine all the columns
Amostras_todas(nome, cols, j) == cols

\* positional samples of the routine call: the loop's column for Shapiro-Wilk,
\* *[dataframe[coluna] for coluna in dataframe.columns] for the others
Amostras(nome, cols, j) ==
    IF nome = "analise_shapiro" THEN <<cols[j]>> ELSE cols

\* keyword arguments of the routine call
Opcoes(q) ==
    [center |-> IF q.nome = "analise_levene" THEN q.centro ELSE "-",
     equal_var |-> IF q.nome = "analise_ttest_ind" THEN variancias_iguais ELSE "-",
     alternative |->
        IF q.nome \in {"analise_ttest_ind", "analise_ttest_rel", "analise_wilcoxon",
                       "analise_mannwhitneyu"}
        THEN alternativa ELSE "-",
     nan_policy |-> "omit"]

\* the branch written as "if valor_p >= alfa"
Veredito_maior_ou_igual(nome, coluna, p, a) ==
    Evento("veredito",
           IF Gt(p, a) \/ (~IsNaN(p) /\ p = a) THEN TextoMantem(nome) ELSE TextoRejeita(nome),
           Fmt3(p), IF nome = "analise_shapiro" THEN coluna ELSE "-", <<>>, SemOpcoes)

\* the branch written as "if valor_p <= alfa: reject, else: keep"
Veredito_invertido(nome, coluna, p, a) ==
    Evento("veredito",
           IF ~IsNaN(p) /\ ~IsNaN(a) /\ ~Gt(p, a) THEN TextoRejeita(nome)
           ELSE TextoMantem(nome),
           Fmt3(p), IF nome = "analise_shapiro" THEN coluna ELSE "-", <<>>, SemOpcoes)

\* "if valor_p > alfa: print(<kept>) else: print(<rejected>)"
Veredito(nome, coluna, p, a) ==
    Evento("veredito",
           IF Gt(p, a) THEN TextoMantem(nome) ELSE TextoRejeita(nome),
           Fmt3(p), IF nome = "analise_shapiro" THEN coluna ELSE "-", <<>>, SemOpcoes)

\* where control goes when the running reporter returns
AoRetornar == IF passo < Len(Plano) THEN "branco" ELSE "fim"

args == <<funcao, colunas, alfa, centro, variancias_iguais, alternativa>>

\* print("Teste ..."), the first statement of every reporter
ImprimeCabecalho ==
    /\ pc = "cabecalho"
    /\ saida' = Append(saida, Evento("cabecalho", Titulo(ativa.nome), SemValor, "-", <<>>, SemOpcoes))
    /\ IF ativa.nome = "analise_shapiro"
       THEN IF colunas = <<>>
            THEN pc' = AoRetornar /\ col' = col
            ELSE pc' = "rotina" /\ col' = 1
       ELSE pc' = "rotina" /\ col' = col
    /\ UNCHANGED <<args, passo, resultado>>
    /\ UNCHANGED varsTabela

ChamadaRotina ==
    Evento("rotina", Rotina(ativa.nome), SemValor, "-", Amostras(ativa.nome, colunas, col),
           Opcoes(ativa))

\* the scipy routine is called and returns (statistic, p-value)
RotinaRetorna ==
    /\ pc = "rotina"
    /\ \E r \in Resultados : resultado' = r
    /\ saida' = Append(saida, ChamadaRotina)
    /\ pc' = "estatistica"
    /\ UNCHANGED <<args, passo, col>>
    /\ UNCHANGED varsTabela

\* a reporter that catches the routine's error and carries on
RotinaLevanta_engolida ==
    /\ pc = "rotina"
    /\ saida' = saida \o <<ChamadaRotina, Evento("erro", "-", SemValor, "-", <<>>, SemOpcoes)>>
    /\ pc' = "estatistica"
    /\ UNCHANGED <<args, passo, col, resultado>>
    /\ UNCHANGED varsTabela

\* the scipy routine is called and raises: no handler anywhere, the error
\* leaves the reporter (and the composite) at once
RotinaLevanta ==
    /\ pc = "rotina"
    /\ saida' = saida \o <<ChamadaRotina, Evento("erro", "-", SemValor, "-", <<>>, SemOpcoes)>>
    /\ pc' = "erro"
    /\ UNCHANGED <<args, passo, col, resultado>>
    /\ UNCHANGED varsTabela

\* print(f"{estatistica=:.3f}")
ImprimeEstatistica ==
    /\ pc = "estatistica"
    /\ saida' = Append(saida, Evento("estatistica", NomeEstatistica(ativa.nome),
                                     Fmt3(resultado[1]), "-", <<>>, SemOpcoes))
    /\ pc' = "veredito"
    /\ UNCHANGED <<args, passo, col, resultado>>
    /\ UNCHANGED varsTabela

\* the if/else that prints the verdict; Shapiro-Wilk then goes on to the next
\* column, every other reporter returns
ImprimeVeredito ==
    /\ pc = "veredito"
    /\ saida' = Append(saida,
                       Veredito(ativa.nome,
                                IF ativa.nome = "analise_shapiro" THEN colunas[col] ELSE "-",
                                resultado[2], ativa.alfa))
    /\ IF ativa.nome = "analise_shapiro" /\ col < Len(colunas)
       THEN pc' = "rotina" /\ col' = col + 1
       ELSE pc' = AoRetornar /\ col' = col
    /\ UNCHANGED <<args, passo, resultado>>
    /\ UNCHANGED varsTabela

\* print() between the two reporters of analises_shapiro_levene
ImprimeBranco ==
    /\ pc = "branco"
    /\ saida' = Append(saida, Evento("branco", "", SemValor, "-", <<>>, SemOpcoes))
    /\ passo' = passo + 1
    /\ pc' = "cabecalho"
    /\ UNCHANGED <<args, col, resultado>>
    /\ UNCHANGED varsTabela

TabelaParada ==
    /\ dataframe = <<>>
    /\ coluna_frequencia = FALSE
    /\ df_estatistica = SemTabela
    /\ chamadas = 0

InitRelatorio ==
    /\ funcao \in Funcoes
    /\ colunas \in Tabelas
    /\ alfa \in Alfas
    /\ centro \in IF funcao \in {"analise_levene", "analises_shapiro_levene"}
                  THEN {"mean", "median", "trimmed"} ELSE {"mean"}
    /\ variancias_iguais \in IF funcao = "analise_ttest_ind" THEN {"True", "False"}
                             ELSE {"True"}
    /\ alternativa \in IF funcao \in {"analise_ttest_ind", "analise_ttest_rel",
                                      "analise_wilcoxon", "analise_mannwhitneyu"}
                       THEN {"two-sided", "less", "greater"} ELSE {"two-sided"}
    /\ passo = 1
    /\ pc = "cabecalho"
    /\ col = 0
    /\ resultado = <<NaN, NaN>>
    /\ saida = <<>>
    /\ TabelaParada

NextRelatorio ==
    \/ ImprimeCabecalho
    \/ RotinaRetorna
    \/ RotinaLevanta
    \/ ImprimeEstatistica
    \/ ImprimeVeredito
    \/ ImprimeBranco

SpecRelatorio == InitRelatorio /\ [][NextRelatorio]_vars

(***************************************************************************)
(* Properties of the reporters                                             *)
(***************************************************************************)
Quantos(tipo) == Cardinality({i \in 1..Len(saida) : saida[i].tipo = tipo})
\* positions of the entries of one kind, in order
RECURSIVE Posicoes(_, _)
Posicoes(tipo, n) ==
    IF n = 0 THEN <<>>
    ELSE IF saida[n].tipo = tipo THEN Append(Posicoes(tipo, n - 1), n)
    ELSE Posicoes(tipo, n - 1)

\* the latest entry is a verdict: resultado is the test result it reports
VereditoImpresso == saida # <<>> /\ saida[Len(saida)].tipo = "veredito"
UltimoTexto == saida[Len(saida)].texto
PIgualAlfa == ~IsNaN(resultado[2]) /\ resultado[2] = ativa.alfa

\* C1 as stated: a p-value exactly equal to alfa prints the "fails to reject"
\* (null hypothesis kept) verdict.
C1_Limiar_Original ==
    (VereditoImpresso /\ PIgualAlfa) => UltimoTexto = TextoMantem(ativa.nome)

\* C1 amended: for every reporter, a p-value exactly equal to alfa prints the
\* "rejects" verdict (the "fails to reject" branch needs p strictly greater).
C1_Limiar ==
    (VereditoImpresso /\ PIgualAlfa)
        => /\ UltimoTexto = TextoRejeita(ativa.nome)
           /\ UltimoTexto # TextoMantem(ativa.nome)

C1_Witness ==
    /\ VereditoImpresso
    /\ PIgualAlfa
    /\ funcao = "analise_ttest_ind"
    /\ alfa = AlfaPadrao
    /\ UltimoTexto = "Rejeita a hipotese nula (valor p: {p:.3f})"

\* C2: for every reporter, test result and alfa, the verdict printed is the
\* "fails to reject" one if and only if p > alfa and the "rejects" one in
\* every other case (NaN included), and each test result gets exactly one
\* verdict: never both, never none.  The verdict carries the p-value to 3
\* decimals.
C2_Veredito ==
    /\ VereditoImpresso =>
          /\ UltimoTexto = TextoMantem(ativa.nome) <=> Gt(resultado[2], alfa)
          /\ UltimoTexto = TextoRejeita(ativa.nome) <=> ~Gt(resultado[2], alfa)
          /\ saida[Len(saida)].valor = Fmt3(resultado[2])
          /\ resultado[2] = <<1, 16>> => saida[Len(saida)].valor = Impresso("", 62, "")
          /\ resultado[2] = <<1, 20>> => saida[Len(saida)].valor = Impresso("", 50, "")
          /\ IsNaN(resultado[2]) => saida[Len(saida)].valor = Impresso("", 0, "nan")
    /\ Quantos("veredito") + (IF pc \in {"estatistica", "veredito"} THEN 1 ELSE 0)
          = Quantos("rotina") - Quantos("erro")

C2_Witness ==
    /\ VereditoImpresso
    /\ IsNaN(resultado[2])
    /\ ~IsNaN(alfa)
    /\ funcao = "analise_kruskal"
    /\ UltimoTexto = "Rejeita a hipotese nula (valor p: {p:.3f})"
    /\ saida[Len(saida)].valor.especial = "nan"
    /\ Quantos("veredito") = 1

PosBranco == Posicoes("branco", Len(saida))
EhShapiro(e) ==
    \/ e.tipo = "cabecalho" /\ e.texto = Titulo("analise_shapiro")
    \/ e.tipo = "rotina" /\ e.texto = "shapiro"
    \/ e.tipo = "estatistica" /\ e.texto = "estatistica_sw"
    \/ e.tipo = "veredito" /\ e.texto \in {TextoMantem("analise_shapiro"),
                                            TextoRejeita("analise_shapiro")}
EhLevene(e) ==
    \/ e.tipo = "cabecalho" /\ e.texto = Titulo("analise_levene")
    \/ e.tipo = "rotina" /\ e.texto = "levene"
    \/ e.tipo = "estatistica" /\ e.texto = "estatistica_levene"
    \/ e.tipo = "veredito" /\ e.texto \in {TextoMantem("analise_levene"),
                                            TextoRejeita("analise_levene")}

\* C8: in a call of analises_shapiro_levene everything Shapiro-Wilk prints
\* comes first, then exactly one blank line, then everything Levene prints;
\* Levene starts only after Shapiro-Wilk has given its verdict for every
\* column; both reporters judge with the alfa given to the composite and the
\* Levene routine gets the composite's centro.
C8_Composto ==
    funcao = "analises_shapiro_levene" =>
        /\ Len(PosBranco) <= 1
        /\ (pc = "fim" \/ passo = 2) => Len(PosBranco) = 1
        /\ \A i \in 1..Len(saida) :
              /\ EhShapiro(saida[i]) => \A k \in 1..Len(PosBranco) : i < PosBranco[k]
              /\ EhLevene(saida[i]) =>
                    /\ Len(PosBranco) = 1
                    /\ i > PosBranco[1]
                    /\ Cardinality({j \in 1..PosBranco[1] :
                                      saida[j].tipo = "veredito" /\ EhShapiro(saida[j])})
                          = Len(colunas)
              /\ saida[i].tipo \in {"cabecalho", "rotina", "estatistica", "veredito"}
                    => EhShapiro(saida[i]) \/ EhLevene(saida[i])
              /\ saida[i].tipo = "rotina" /\ EhLevene(saida[i])
                    => saida[i].opcoes.center = centro /\ saida[i].amostras = colunas
        /\ ativa.alfa = alfa
        /\ VereditoImpresso =>
              (UltimoTexto = TextoMantem(ativa.nome) <=> Gt(resultado[2], alfa))
        /\ pc = "fim" => /\ saida[1] = Evento("cabecalho", "Teste de Shapiro-Wilk", SemValor, "-",
                                             <<>>, SemOpcoes)
                         /\ saida[PosBranco[1] + 1].texto = "Teste de Levene"
                         /\ Quantos("cabecalho") = 2

C8_Witness ==
    /\ funcao = "analises_shapiro_levene"
    /\ pc = "fim"
    /\ Len(colunas) = 2
    /\ centro = "median"
    /\ Len(saida) = 12
    /\ saida[8].tipo = "branco"
    /\ saida[10].texto = "levene"

\* C9 as stated: when the routine raises inside a reporter call, no verdict
\* line is printed by that call, before or after the error.
C9_Erro_Original == pc = "erro" => Quantos("veredito") = 0

\* C9 amended: when the routine raises, the error leaves the call at once and
\* nothing is printed after it; the failing routine call gets no statistic and
\* no verdict; the verdicts already printed are those of the routine calls
\* that returned before it (earlier Shapiro-Wilk columns, and Shapiro-Wilk
\* before Levene in the composite); a reporter that calls the routine once
\* prints no verdict at all.
C9_Erro ==
    /\ \A i \in 1..Len(saida) :
          saida[i].tipo = "erro" =>
              /\ i = Len(saida)
              /\ pc = "erro"
              /\ saida[i - 1].tipo = "rotina"
    /\ pc = "erro" =>
          /\ saida[Len(saida)].tipo = "erro"
          /\ Quantos("veredito") = Quantos("rotina") - 1
          /\ Quantos("estatistica") = Quantos("rotina") - 1
          /\ funcao \notin {"analise_shapiro", "analises_shapiro_levene"}
                => Quantos("veredito") = 0
          /\ ~ENABLED NextRelatorio

C9_Witness ==
    /\ pc = "erro"
    /\ funcao = "analises_shapiro_levene"
    /\ Len(colunas) = 1
    /\ saida[Len(saida) - 1].texto = "levene"
    /\ Quantos("veredito") = 1

\* C10: a reporter prints its header once and before it calls the routine,
\* then for each routine call the statistic and then the verdict.
\* analise_shapiro on k columns calls the routine once per column in column
\* order and prints k (statistic, verdict) pairs, each verdict naming its
\* column; every other reporter calls the routine exactly once with all the
\* columns as positional samples in column order and prints one statistic (to 3
\* decimals) and one verdict.
C10_Ordem ==
    /\ \A i \in 1..Len(saida) :
          /\ saida[i].tipo = "cabecalho" =>
                (i = 1 \/ saida[i - 1].tipo = "branco")
          /\ saida[i].tipo = "rotina" =>
                (i > 1 /\ saida[i - 1].tipo \in {"cabecalho", "veredito"})
          /\ saida[i].tipo = "estatistica" => (i > 1 /\ saida[i - 1].tipo = "rotina")
          /\ saida[i].tipo = "veredito" => (i > 1 /\ saida[i - 1].tipo = "estatistica")
    /\ (saida # <<>> /\ funcao \in Reporters) =>
          /\ saida[1] = Evento("cabecalho", Titulo(funcao), SemValor, "-", <<>>, SemOpcoes)
          /\ Quantos("cabecalho") = 1
    /\ (pc = "fim" /\ funcao = "analise_shapiro") =>
          /\ Len(saida) = 1 + 3 * Len(colunas)
          /\ \A k \in 1..Len(colunas) :
                /\ saida[3 * k - 1].tipo = "rotina"
                /\ saida[3 * k - 1].texto = "shapiro"
                /\ saida[3 * k - 1].amostras = <<colunas[k]>>
                /\ saida[3 * k].tipo = "estatistica"
                /\ saida[3 * k + 1].tipo = "veredito"
                /\ saida[3 * k + 1].coluna = colunas[k]
    /\ (pc = "fim" /\ funcao \in Reporters \ {"analise_shapiro"}) =>
          /\ Len(saida) = 4
          /\ saida[2].tipo = "rotina"
          /\ saida[2].texto = Rotina(funcao)
          /\ saida[2].amostras = colunas
          /\ saida[3].tipo = "estatistica"
          /\ saida[3].texto = NomeEstatistica(funcao)
          /\ resultado[1] = <<2, 3>> => saida[3].valor = Impresso("", 667, "")
          /\ resultado[1] = <<9, 2000>> => saida[3].valor = Impresso("", 4, "")
          /\ resultado[1] = <<-1, 10000>> => saida[3].valor = Impresso("-", 0, "")
          /\ saida[4].tipo = "veredito"

C10_Witness ==
    /\ pc = "fim"
    /\ funcao = "analise_shapiro"
    /\ colunas = <<"b", "a">>
    /\ Len(saida) = 7
    /\ saida[4].coluna = "b"
    /\ saida[7].coluna = "a"

=============================================================================
